---- MODULE Spec2Model ----
(***************************************************************************)
(* Nearest-centroid assignment of sales records to three revenue clusters, *)
(* the comparison with the cluster labelled in the input, the per-cluster  *)
(* analysis and the summary figures of the Excel report (project.py).      *)
(*                                                                         *)
(* Amounts are whole rupiah.  The third centroid, 689155580.85, is kept as *)
(* 689155581: for every whole-rupiah omset the nearest centroid and the    *)
(* order of the three distances are the same with either value (the        *)
(* midpoints 345035290.425 / 344789790.425 and 345035290.5 / 344789790.5   *)
(* separate the same integers).                                            *)
(* A float quotient a / b is kept as the fraction [num |-> a, den |-> b];  *)
(* NaN is [nan |-> TRUE, ...].  Python's None is the value None below.     *)
(* A Python call that can raise returns [ok |-> FALSE, exc |-> name] or    *)
(* [ok |-> TRUE, val |-> value].                                           *)
(***************************************************************************)
EXTENDS Integers, Sequences, FiniteSets, TLC

VARIABLES
    json_data,         \* main: the parsed content of datasetnew.json
    df,                \* main: the DataFrame load_data returns
    centroids,         \* main: the centroid list
    results,           \* main: the list of result dicts (results_df once complete)
    omset,             \* main: loop local, the omset of the current row
    distances,         \* main: loop local, the distances of the current row
    assigned_cluster,  \* main: loop local, the cluster of the current row
    cluster_analysis,  \* main: <<>> until analyze_cluster_characteristics returned
    summary_data,      \* create_excel_report: <<>> until summary_data is built
    mismatches,        \* create_excel_report: the rows of the Mismatches sheet
    pc,                \* position in main / create_excel_report
    error              \* the exception that ended the run, "" if none

vars == <<json_data, df, centroids, results, omset, distances, assigned_cluster,
          cluster_analysis, summary_data, mismatches, pc, error>>

----------------------------------------------------------------------------
(* Values *)

None == 0

NumClusters == 3

CENTROIDS == <<424000, 915000, 689155581>>

CLUSTER_IDS == <<1, 2, 3>>

Abs(x) == IF x < 0 THEN -x ELSE x

RECURSIVE SumSeq(_)
SumSeq(s) == IF s = <<>> THEN 0 ELSE s[1] + SumSeq(Tail(s))

Column(rows, f) == [i \in 1..Len(rows) |-> rows[i][f]]

----------------------------------------------------------------------------
(* load_data *)

RECURSIVE StrToFloat(_)
\* An Omset text is a thousands-separated number, kept as its comma-separated
\* groups ("345,035,291" is <<345, 35, 291>>); str.replace(',', '') joins the
\* groups and astype(float) reads the digits.
StrToFloat(groups) ==
    IF groups = <<>> THEN 0
    ELSE StrToFloat(SubSeq(groups, 1, Len(groups) - 1)) * 1000 + groups[Len(groups)]

load_data(data) ==
    IF data = <<>>
    THEN [ok |-> FALSE, exc |-> "KeyError"]   \* pd.DataFrame([]) has no 'Omset' column
    ELSE [ok |-> TRUE,
          val |-> [i \in 1..Len(data) |->
                      [data[i] EXCEPT !.Omset = StrToFloat(@)]]]

----------------------------------------------------------------------------
(* calculate_distances, assign_cluster *)

calculate_distances(v, cs) == [i \in 1..Len(cs) |-> Abs(v - cs[i])]

\* min(distances): raises ValueError on an empty list
PyMin(s) ==
    IF s = <<>> THEN [ok |-> FALSE, exc |-> "ValueError"]
    ELSE [ok |-> TRUE,
          val |-> CHOOSE m \in {s[i] : i \in 1..Len(s)} :
                     \A j \in 1..Len(s) : m <= s[j]]

\* list.index read as the last position holding x
PyIndex_last(s, x) == (CHOOSE i \in 1..Len(s) : s[i] = x /\ \A j \in (i + 1)..Len(s) : s[j] # x) - 1

\* list.index(x): the first position holding x, 0-based
PyIndex(s, x) == (CHOOSE i \in 1..Len(s) : s[i] = x /\ \A j \in 1..(i - 1) : s[j] # x) - 1

\* assign_cluster with a default cluster for an empty list
assign_cluster_default(ds) ==
    IF ds = <<>> THEN [ok |-> TRUE, val |-> 1]
    ELSE [ok |-> TRUE, val |-> PyIndex(ds, PyMin(ds).val) + 1]

\* assign_cluster without the + 1
assign_cluster_zero_based(ds) ==
    LET m == PyMin(ds)
    IN  IF ~m.ok THEN m
        ELSE [ok |-> TRUE, val |-> PyIndex(ds, m.val)]

assign_cluster(ds) ==
    LET m == PyMin(ds)
    IN  IF ~m.ok THEN m
        ELSE [ok |-> TRUE, val |-> PyIndex(ds, m.val) + 1]

----------------------------------------------------------------------------
(* main, lines 240-247: the existing cluster of a row *)

\* the flags tested with three separate ifs: the last match wins
existing_cluster_of_last(row) ==
    IF row.Kluster_3 = "1" THEN 3
    ELSE IF row.Kluster_2 = "1" THEN 2
    ELSE IF row.Kluster_1 = "1" THEN 1
    ELSE None

existing_cluster_of(row) ==
    IF row.Kluster_1 = "1" THEN 1
    ELSE IF row.Kluster_2 = "1" THEN 2
    ELSE IF row.Kluster_3 = "1" THEN 3
    ELSE None

\* main, lines 250-258: the result dict of a row
result_of(row, ds, cluster) ==
    [Data_id |-> row.Data_id,
     Nama_Toko |-> row.Nama_Toko,
     nama_Produk |-> row.nama_Produk,
     Omset |-> row.Omset,
     Calculated_Cluster |-> cluster,
     Existing_Cluster |-> existing_cluster_of(row),
     Distances |-> ds]

----------------------------------------------------------------------------
(* analyze_cluster_characteristics *)

\* Series.mean(): NaN for an empty Series, else sum / count
Mean(s) ==
    IF s = <<>> THEN [nan |-> TRUE, num |-> 0, den |-> 0]
    ELSE [nan |-> FALSE, num |-> SumSeq(s), den |-> Len(s)]

RECURSIVE CounterAdd(_, _)
\* Counter: one more occurrence of x; a new key goes last (insertion order)
CounterAdd(items, x) ==
    IF items = <<>> THEN <<[elem |-> x, cnt |-> 1]>>
    ELSE IF items[1].elem = x
         THEN <<[elem |-> x, cnt |-> items[1].cnt + 1]>> \o Tail(items)
         ELSE <<items[1]>> \o CounterAdd(Tail(items), x)

RECURSIVE Counter(_)
\* Counter(iterable): the items (elem, cnt) in order of first occurrence
Counter(s) ==
    IF s = <<>> THEN <<>>
    ELSE CounterAdd(Counter(SubSeq(s, 1, Len(s) - 1)), s[Len(s)])

RECURSIVE InsertByCount_unstable(_, _)
\* x goes before the first item with a smaller or equal count: among equal
\* counts the later item comes first
InsertByCount_unstable(sorted, x) ==
    IF sorted = <<>> THEN <<x>>
    ELSE IF sorted[1].cnt <= x.cnt THEN <<x>> \o sorted
         ELSE <<sorted[1]>> \o InsertByCount_unstable(Tail(sorted), x)

RECURSIVE InsertByCount(_, _)
\* x goes before the first item with a strictly smaller count: items with the
\* same count keep their order
InsertByCount(sorted, x) ==
    IF sorted = <<>> THEN <<x>>
    ELSE IF sorted[1].cnt < x.cnt THEN <<x>> \o sorted
         ELSE <<sorted[1]>> \o InsertByCount(Tail(sorted), x)

RECURSIVE SortByCount(_)
\* sorted(items, key=count, reverse=True): stable
SortByCount(items) ==
    IF items = <<>> THEN <<>>
    ELSE InsertByCount(SortByCount(SubSeq(items, 1, Len(items) - 1)), items[Len(items)])

\* Counter.most_common(n) = heapq.nlargest(n, items, key=count)
\*                        = sorted(items, key=count, reverse=True)[:n]
most_common(items, n) ==
    LET s == SortByCount(items)
    IN  SubSeq(s, 1, IF Len(s) < n THEN Len(s) ELSE n)

characteristics_of(cluster) ==
    IF cluster = 1 THEN "Toko dengan penjualan rendah atau baru memulai"
    ELSE IF cluster = 2 THEN "Toko dengan stabilitas penjualan menengah"
    ELSE "Toko dengan performa penjualan tinggi"

\* the frame filtered on the Existing Cluster column
cluster_data_of_existing(results_df, cluster) ==
    LET Keep(r) == r.Existing_Cluster = cluster
    IN  SelectSeq(results_df, Keep)

\* results_df[results_df['Calculated Cluster'] == cluster]
cluster_data_of(results_df, cluster) ==
    LET Keep(r) == r.Calculated_Cluster = cluster
    IN  SelectSeq(results_df, Keep)

cluster_profile(results_df, cluster) ==
    LET cluster_data == cluster_data_of(results_df, cluster)
        top_products == most_common(Counter(Column(cluster_data, "nama_Produk")), 3)
    IN  [avg_omset |-> Mean(Column(cluster_data, "Omset")),
         characteristics |-> characteristics_of(cluster),
         dominant_products |-> Column(top_products, "elem")]

analyze_cluster_characteristics(results_df) ==
    [i \in 1..Len(CLUSTER_IDS) |-> cluster_profile(results_df, CLUSTER_IDS[i])]

----------------------------------------------------------------------------
(* create_excel_report *)

\* a missing Existing Cluster counted as a match
matching_count_none(results_df) ==
    LET Keep(r) == r.Existing_Cluster = None \/ r.Calculated_Cluster = r.Existing_Cluster
    IN  Len(SelectSeq(results_df, Keep))

\* sum(results_df['Calculated Cluster'] == results_df['Existing Cluster']):
\* an Existing Cluster of None (NaN in the frame) equals no cluster number
matching_count(results_df) ==
    LET Keep(r) == r.Calculated_Cluster = r.Existing_Cluster
    IN  Len(SelectSeq(results_df, Keep))

\* value_counts().get(k, 0)
value_count(results_df, f, k) ==
    LET Keep(r) == r[f] = k
    IN  Len(SelectSeq(results_df, Keep))

\* lines 134-157; the quotient of line 149 raises on an empty frame
build_summary_data(results_df) ==
    IF Len(results_df) = 0 THEN [ok |-> FALSE, exc |-> "ZeroDivisionError"]
    ELSE [ok |-> TRUE,
          val |-> [Total_Records |-> Len(results_df),
                   Matching_Clusters |-> matching_count(results_df),
                   Match_Percentage |->
                       [num |-> matching_count(results_df) * 100,
                        den |-> Len(results_df)],
                   Calculated |-> [k \in 1..NumClusters |->
                       value_count(results_df, "Calculated_Cluster", k)],
                   Existing |-> [k \in 1..NumClusters |->
                       value_count(results_df, "Existing_Cluster", k)]]]

\* worksheet.write of a float: xlsxwriter's write_number raises TypeError for
\* NaN, the workbook of line 95 being opened without nan_inf_to_errors
write_number(x) ==
    IF x.nan THEN [ok |-> FALSE, exc |-> "TypeError"] ELSE [ok |-> TRUE, val |-> x]

\* lines 174-183: the first cluster whose Average Omset cannot be written
write_cluster_info(analysis) ==
    IF \E c \in 1..NumClusters : ~write_number(analysis[c].avg_omset).ok
    THEN [ok |-> FALSE, exc |-> "TypeError"]
    ELSE [ok |-> TRUE, val |-> analysis]

\* the rows without an Existing Cluster left out of the mismatches
mismatches_of_labelled(results_df) ==
    LET Keep(r) == r.Existing_Cluster # None /\ r.Calculated_Cluster # r.Existing_Cluster
    IN  SelectSeq(results_df, Keep)

\* results_df[results_df['Calculated Cluster'] != results_df['Existing Cluster']]
mismatches_of(results_df) ==
    LET Keep(r) == r.Calculated_Cluster # r.Existing_Cluster
    IN  SelectSeq(results_df, Keep)

----------------------------------------------------------------------------
(* Inputs *)

MaxRecords == 3

Seqs(S, n) == UNION {[1..k -> S] : k \in 0..n}

OmsetTexts == {<<424, 0>>, <<500, 0>>, <<915, 0>>, <<345, 35, 291>>}

Products == {"A", "B"}

Flags == {<<"0", "0", "0">>, <<"1", "0", "0">>, <<"0", "1", "0">>}

\* the files whose records are drawn from rows, a set of (Omset text, product,
\* flags), at most n of them; Data id is the position in the file
Records(rows, n) ==
    {[i \in 1..Len(c) |->
        [Data_id |-> i, Nama_Toko |-> "Toko", nama_Produk |-> c[i][2],
         Omset |-> c[i][1],
         Kluster_1 |-> c[i][3][1], Kluster_2 |-> c[i][3][2], Kluster_3 |-> c[i][3][3]]] :
     c \in Seqs(rows, n)}

----------------------------------------------------------------------------
(* main *)

InitWith(data) ==
    /\ json_data = data
    /\ df = <<>>
    /\ centroids = <<>>
    /\ results = <<>>
    /\ omset = 0
    /\ distances = <<>>
    /\ assigned_cluster = 0
    /\ cluster_analysis = <<>>
    /\ summary_data = <<>>
    /\ mismatches = <<>>
    /\ pc = "load"
    /\ error = ""

Init == \E data \in Records(OmsetTexts \X Products \X Flags, MaxRecords) : InitWith(data)

Raise(exc) ==
    /\ pc' = "error"
    /\ error' = exc

\* lines 224-231
LoadData ==
    /\ pc = "load"
    /\ LET r == load_data(json_data)
       IN  IF r.ok
           THEN /\ df' = r.val
                /\ centroids' = CENTROIDS
                /\ pc' = "loop"
                /\ UNCHANGED error
           ELSE /\ Raise(r.exc)
                /\ UNCHANGED <<df, centroids>>
    /\ UNCHANGED <<json_data, results, omset, distances, assigned_cluster,
                   cluster_analysis, summary_data, mismatches>>

\* lines 235-258: one iteration of the loop over df.iterrows()
ProcessRow ==
    /\ pc = "loop"
    /\ Len(results) < Len(df)
    /\ LET row == df[Len(results) + 1]
           ds == calculate_distances(row.Omset, centroids)
           a == assign_cluster(ds)
       IN  IF a.ok
           THEN /\ omset' = row.Omset
                /\ distances' = ds
                /\ assigned_cluster' = a.val
                /\ results' = Append(results, result_of(row, ds, a.val))
                /\ UNCHANGED <<pc, error>>
           ELSE /\ Raise(a.exc)
                /\ omset' = row.Omset
                /\ distances' = ds
                /\ UNCHANGED <<assigned_cluster, results>>
    /\ UNCHANGED <<json_data, df, centroids, cluster_analysis, summary_data, mismatches>>

\* lines 260-272: the loop is over; results_df, the analysis and its printout
Analyze ==
    /\ pc = "loop"
    /\ Len(results) = Len(df)
    /\ cluster_analysis' = analyze_cluster_characteristics(results)
    /\ pc' = "report_summary"
    /\ UNCHANGED <<json_data, df, centroids, results, omset, distances,
                   assigned_cluster, summary_data, mismatches, error>>

\* create_excel_report, lines 92-166: Detailed Results and the summary data
ReportSummary ==
    /\ pc = "report_summary"
    /\ LET s == build_summary_data(results)
       IN  IF s.ok
           THEN /\ summary_data' = <<s.val>>
                /\ pc' = "report_clusters"
                /\ UNCHANGED error
           ELSE /\ Raise(s.exc)
                /\ UNCHANGED summary_data
    /\ UNCHANGED <<json_data, df, centroids, results, omset, distances,
                   assigned_cluster, cluster_analysis, mismatches>>

\* create_excel_report, lines 168-186: the three cluster blocks
ReportClusterInfo ==
    /\ pc = "report_clusters"
    /\ LET w == write_cluster_info(cluster_analysis)
       IN  IF w.ok
           THEN /\ pc' = "report_mismatches"
                /\ UNCHANGED error
           ELSE Raise(w.exc)
    /\ UNCHANGED <<json_data, df, centroids, results, omset, distances,
                   assigned_cluster, cluster_analysis, summary_data, mismatches>>

\* create_excel_report, lines 188-217: Mismatches, Centroids, close
ReportMismatches ==
    /\ pc = "report_mismatches"
    /\ mismatches' = mismatches_of(results)
    /\ pc' = "done"
    /\ UNCHANGED <<json_data, df, centroids, results, omset, distances,
                   assigned_cluster, cluster_analysis, summary_data, error>>

Next ==
    \/ LoadData
    \/ ProcessRow
    \/ Analyze
    \/ ReportSummary
    \/ ReportClusterInfo
    \/ ReportMismatches

Spec == Init /\ [][Next]_vars

----------------------------------------------------------------------------
(* The loop of main on files of a few records with every combination of flag
   values *)

MaxLabelRecords == 1

FlagValues == {"0", "1", "true", ""}

InitLabel ==
    \E data \in Records({<<424, 0>>} \X {"A"} \X (FlagValues \X FlagValues \X FlagValues),
                        MaxLabelRecords) : InitWith(data)

NextLabel ==
    \/ LoadData
    \/ ProcessRow

SpecLabel == InitLabel /\ [][NextLabel]_vars

----------------------------------------------------------------------------
(* main up to the analysis on files with up to four products in cluster 1 and
   one product in cluster 2 *)

MaxTopRecords == 6

TopRows ==
    ({<<424, 0>>} \X {"A", "B", "C", "D"} \X {<<"0", "0", "0">>})
        \cup {<< <<915, 0>>, "A", <<"0", "0", "0">> >>}

InitTop == \E data \in Records(TopRows, MaxTopRecords) : InitWith(data)

NextTop ==
    \/ LoadData
    \/ ProcessRow
    \/ Analyze

SpecTop == InitTop /\ [][NextTop]_vars

----------------------------------------------------------------------------
(* calculate_distances and assign_cluster called as main calls them, on any
   omset and any list of at most three centroids *)

MaxVal == 4

InitAssign ==
    /\ omset \in 0..MaxVal
    /\ centroids \in Seqs(0..MaxVal, NumClusters)
    /\ json_data = <<>>
    /\ df = <<>>
    /\ results = <<>>
    /\ distances = <<>>
    /\ assigned_cluster = 0
    /\ cluster_analysis = <<>>
    /\ summary_data = <<>>
    /\ mismatches = <<>>
    /\ pc = "call_distances"
    /\ error = ""

\* line 237
CallCalculateDistances ==
    /\ pc = "call_distances"
    /\ distances' = calculate_distances(omset, centroids)
    /\ pc' = "call_assign"
    /\ UNCHANGED <<json_data, df, centroids, results, omset, assigned_cluster,
                   cluster_analysis, summary_data, mismatches, error>>

\* line 238
CallAssignCluster ==
    /\ pc = "call_assign"
    /\ LET a == assign_cluster(distances)
       IN  IF a.ok
           THEN /\ assigned_cluster' = a.val
                /\ pc' = "returned"
                /\ UNCHANGED error
           ELSE /\ Raise(a.exc)
                /\ UNCHANGED assigned_cluster
    /\ UNCHANGED <<json_data, df, centroids, results, omset, distances,
                   cluster_analysis, summary_data, mismatches>>

NextAssign ==
    \/ CallCalculateDistances
    \/ CallAssignCluster

SpecAssign == InitAssign /\ [][NextAssign]_vars

----------------------------------------------------------------------------
(* Properties *)

Terminated == pc \in {"done", "error"}

\* the positions of the results assigned to cluster c
InCluster(c) == {i \in 1..Len(results) : results[i].Calculated_Cluster = c}

RECURSIVE OmsetSum(_)
OmsetSum(I) ==
    IF I = {} THEN 0
    ELSE LET i == CHOOSE k \in I : TRUE
         IN  results[i].Omset + OmsetSum(I \ {i})

AllFlagsZero(rec) == rec.Kluster_1 = "0" /\ rec.Kluster_2 = "0" /\ rec.Kluster_3 = "0"

FlagsSet(rec) ==
    {k \in 1..3 : <<rec.Kluster_1, rec.Kluster_2, rec.Kluster_3>>[k] = "1"}

\* C1: the assigned cluster is the 1-based index of a centroid at minimum
\* absolute distance from the omset, element i of the distance list being
\* abs(omset - centroid i), and among centroids at the same minimum distance
\* the lowest index is returned.
C1_NearestLowestIndex ==
    (pc = "returned" /\ Len(centroids) = NumClusters) =>
        /\ Len(distances) = NumClusters
        /\ \A i \in 1..NumClusters :
              /\ distances[i] >= 0
              /\ distances[i] \in {omset - centroids[i], centroids[i] - omset}
        /\ assigned_cluster \in 1..NumClusters
        /\ \A j \in 1..NumClusters : distances[assigned_cluster] <= distances[j]
        /\ \A j \in 1..(assigned_cluster - 1) : distances[j] > distances[assigned_cluster]

\* an omset midway between centroids 1 and 2, both nearer than centroid 3, is
\* assigned cluster 1
C1_Witness ==
    /\ pc = "returned"
    /\ Len(centroids) = NumClusters
    /\ centroids[1] < omset /\ omset < centroids[2] /\ centroids[2] < centroids[3]
    /\ omset - centroids[1] = centroids[2] - omset
    /\ assigned_cluster = 1

\* C2: the existing cluster of a record is the number of the first flag, in
\* the order Kluster 1, 2, 3, whose text is "1", None when no flag is "1";
\* several flags at "1" raise no error.
C2_FirstFlagWins ==
    /\ \A i \in 1..Len(results) :
          LET S == FlagsSet(json_data[i])
              e == results[i].Existing_Cluster
          IN  /\ S = {} => e = None
              /\ S # {} => (e \in S /\ \A k \in S : e <= k)
    /\ json_data # <<>> => error = ""

C2_Witness ==
    \E i \in 1..Len(results) :
        /\ FlagsSet(json_data[i]) = {2, 3}
        /\ results[i].Existing_Cluster = 2

\* C3: with a cluster that has no record, the analysis and the report complete
\* without raising: the profile of that cluster has the "no data" average, no
\* dominant product and its characteristic string, and the report is written.
C3_EmptyClusterReported ==
    \A c \in 1..NumClusters :
        (Terminated /\ Len(results) > 0 /\ InCluster(c) = {}) =>
            /\ pc = "done"
            /\ error = ""
            /\ cluster_analysis[c].avg_omset.nan
            /\ cluster_analysis[c].dominant_products = <<>>
            /\ cluster_analysis[c].characteristics = characteristics_of(c)

\* C4: the match percentage is 100 * matching / total for every non-empty
\* result set, and with no record at all the run ends without failing, the
\* percentage being flagged as undefined.
C4_MatchPercentage ==
    /\ Len(summary_data) = 1 =>
          /\ summary_data[1].Match_Percentage.den = Len(json_data)
          /\ summary_data[1].Match_Percentage.num =
                100 * Cardinality({i \in 1..Len(results) :
                          results[i].Calculated_Cluster = results[i].Existing_Cluster})
    /\ (Terminated /\ Len(json_data) = 0) => (pc = "done" /\ error = "")

\* C5: a record whose three flags are "0" has no existing cluster, is counted
\* in Total Records and is never counted in Matching Clusters.
C5_UnlabelledNeverMatches ==
    LET Z == {i \in 1..Len(results) : AllFlagsZero(json_data[i])}
    IN  /\ \A i \in Z : results[i].Existing_Cluster = None
        /\ Len(summary_data) = 1 =>
              /\ summary_data[1].Total_Records = Len(json_data)
              /\ summary_data[1].Matching_Clusters <= Len(json_data) - Cardinality(Z)

C5_Witness ==
    /\ Len(summary_data) = 1
    /\ \E i \in 1..Len(results) : AllFlagsZero(json_data[i])
    /\ summary_data[1].Matching_Clusters > 0
    /\ summary_data[1].Matching_Clusters < summary_data[1].Total_Records

\* the products of the results of cluster c, and their figures
ProductsIn(c) == {results[i].nama_Produk : i \in InCluster(c)}
Frequency(c, p) == Cardinality({i \in InCluster(c) : results[i].nama_Produk = p})
FirstSeen(c, p) == CHOOSE i \in InCluster(c) :
    /\ results[i].nama_Produk = p
    /\ \A j \in InCluster(c) : results[j].nama_Produk = p => i <= j

\* C6: the dominant products of a cluster are min(3, distinct products of the
\* cluster) product names of the cluster, by descending frequency in the
\* cluster, equal frequencies by first occurrence, and no product left out is
\* more frequent than one included.
C6_DominantProducts ==
    Len(cluster_analysis) = NumClusters =>
        \A c \in 1..NumClusters :
            LET dp == cluster_analysis[c].dominant_products
                n == Cardinality(ProductsIn(c))
            IN  /\ Len(dp) = IF n < 3 THEN n ELSE 3
                /\ \A k \in 1..Len(dp) : dp[k] \in ProductsIn(c)
                /\ \A k \in 1..Len(dp) : \A l \in (k + 1)..Len(dp) :
                      \/ Frequency(c, dp[k]) > Frequency(c, dp[l])
                      \/ /\ Frequency(c, dp[k]) = Frequency(c, dp[l])
                         /\ FirstSeen(c, dp[k]) < FirstSeen(c, dp[l])
                /\ \A p \in ProductsIn(c) : \A k \in 1..Len(dp) :
                      p \notin {dp[l] : l \in 1..Len(dp)} =>
                          Frequency(c, p) <= Frequency(c, dp[k])

\* four products in cluster 1, the most frequent one seen last, two of the
\* others tied, and a record of another cluster in the file
C6_Witness ==
    /\ Len(cluster_analysis) = NumClusters
    /\ Cardinality(ProductsIn(1)) = 4
    /\ InCluster(2) # {}
    /\ LET dp == cluster_analysis[1].dominant_products
       IN  /\ Len(dp) = 3
           /\ Frequency(1, dp[1]) > Frequency(1, dp[2])
           /\ Frequency(1, dp[2]) = Frequency(1, dp[3])
           /\ FirstSeen(1, dp[1]) > FirstSeen(1, dp[3])

\* C7: the average omset of a cluster with a record is the sum of the omset of
\* the records whose calculated cluster it is, divided by their number.
C7_AverageOverCalculated ==
    Len(cluster_analysis) = NumClusters =>
        \A c \in 1..NumClusters :
            InCluster(c) # {} =>
                /\ ~cluster_analysis[c].avg_omset.nan
                /\ cluster_analysis[c].avg_omset.num = OmsetSum(InCluster(c))
                /\ cluster_analysis[c].avg_omset.den = Cardinality(InCluster(c))

\* two records of different omset in cluster 1, one of them labelled cluster 2
C7_Witness ==
    /\ Len(cluster_analysis) = NumClusters
    /\ \E i, j \in InCluster(1) :
          /\ results[i].Omset # results[j].Omset
          /\ results[i].Existing_Cluster = 2
    /\ InCluster(2) # {}

\* C8: an empty centroid list gives an empty distance list, and assign_cluster
\* on an empty distance list fails (ValueError) and returns no cluster.
C8_EmptyListFails ==
    /\ (pc # "call_distances" /\ centroids = <<>>) => distances = <<>>
    /\ (pc \in {"returned", "error"} /\ distances = <<>>) =>
          /\ pc = "error"
          /\ error = "ValueError"
          /\ assigned_cluster = 0
    /\ pc = "error" => distances = <<>>

C8_Witness ==
    /\ pc = "error"
    /\ centroids = <<>>
    /\ error = "ValueError"

\* C9: the loop appends one result per record, in the order of the file, with
\* a calculated cluster in 1..3 and three distances; the centroid list stays
\* the one of line 231; the analysis and the report run only once every record
\* has its result.
C9_OneResultPerRecord ==
    /\ Len(results) <= Len(df)
    /\ df # <<>> => (Len(df) = Len(json_data) /\ centroids = CENTROIDS)
    /\ \A i \in 1..Len(results) :
          /\ results[i].Data_id = json_data[i].Data_id
          /\ results[i].nama_Produk = json_data[i].nama_Produk
          /\ results[i].Omset = StrToFloat(json_data[i].Omset)
          /\ results[i].Calculated_Cluster \in 1..NumClusters
          /\ Len(results[i].Distances) = NumClusters
    /\ (Len(cluster_analysis) # 0 \/ Len(summary_data) # 0 \/ pc = "done") =>
          Len(results) = Len(json_data)

C9_Witness ==
    /\ pc = "done"
    /\ Len(results) = Len(json_data)
    /\ Len(results) >= 3

====
